---- MODULE Spec2Model ----
(***************************************************************************)
(* Model of the example page docs/src/pages/ex2/0x0.tsx: the component     *)
(* Exception, the JSX element tree it returns, and the rendering host that *)
(* hands the tree to the Layout and Translate providers.                   *)
(*                                                                         *)
(* Text is modelled as a sequence of one-character strings so that the     *)
(* whitespace handling of JSX text children is computed, not assumed.      *)
(***************************************************************************)
EXTENDS Integers, Sequences, FiniteSets, TLC

VARIABLES locale, catalogue, renderCount, layoutCalls, translateCalls, history

vars == <<locale, catalogue, renderCount, layoutCalls, translateCalls, history>>

(* ------------------------------ bounds --------------------------------- *)

\* number of renders explored
MaxRenders == 3

\* locales the host can build the site for; "en" is the default locale
Locales == {"en", "fr", "de"}

DefaultLocale == "en"

(* --------------------------- text helpers ------------------------------ *)

Spaces(n) == [i \in 1..n |-> " "]

IsBlank(c) == c \in {" ", "\t"}

IsLineBreak(c) == c \in {"\n", "\r"}

RECURSIVE SplitLines(_)
\* text.split(/\r\n|\n|\r/)
SplitLines(s) ==
    IF \A i \in 1..Len(s) : ~IsLineBreak(s[i])
    THEN <<s>>
    ELSE LET i == CHOOSE k \in 1..Len(s) :
                     /\ IsLineBreak(s[k])
                     /\ \A j \in 1..(k - 1) : ~IsLineBreak(s[j])
             skip == IF s[i] = "\r" /\ i < Len(s) /\ s[i + 1] = "\n" THEN 2 ELSE 1
         IN  <<SubSeq(s, 1, i - 1)>> \o SplitLines(SubSeq(s, i + skip, Len(s)))

\* line.replace(/\t/g, " ")
TabsToSpaces(s) == [i \in 1..Len(s) |-> IF s[i] = "\t" THEN " " ELSE s[i]]

RECURSIVE TrimLeft(_)
\* line.replace(/^[ ]+/, "")
TrimLeft(s) == IF s # <<>> /\ Head(s) = " " THEN TrimLeft(Tail(s)) ELSE s

RECURSIVE TrimRight(_)
\* line.replace(/[ ]+$/, "")
TrimRight(s) ==
    IF s # <<>> /\ s[Len(s)] = " " THEN TrimRight(SubSeq(s, 1, Len(s) - 1)) ELSE s

RECURSIVE Concat(_)
Concat(ss) == IF ss = <<>> THEN <<>> ELSE Head(ss) \o Concat(Tail(ss))

\* The value of a JSX text child: every line is stripped of the blanks that
\* touch a line break, lines left empty are dropped, the others are joined by
\* one space.
CleanJSXText(raw) ==
    LET lines == SplitLines(raw)
        n == Len(lines)
        nonEmpty == {i \in 1..n : \E k \in 1..Len(lines[i]) : ~IsBlank(lines[i][k])}
        lastNonEmpty == IF nonEmpty = {} THEN 0
                        ELSE CHOOSE i \in nonEmpty : \A j \in nonEmpty : j <= i
        piece(i) ==
            LET t0 == TabsToSpaces(lines[i])
                t1 == IF i # 1 THEN TrimLeft(t0) ELSE t0
                t2 == IF i # n THEN TrimRight(t1) ELSE t1
            IN  IF t2 = <<>> THEN <<>>
                ELSE IF i # lastNonEmpty THEN t2 \o <<" ">> ELSE t2
    IN  Concat([i \in 1..n |-> piece(i)])

(* --------------------------- JSX elements ------------------------------ *)

TextNode(chars) == [type |-> "#text", text |-> chars]

\* a run of source characters between two tags
JSXText(raw) == [type |-> "#rawtext", raw |-> raw]

RECURSIVE CleanChildren(_)
\* text children are cleaned, and dropped when nothing is left of them
CleanChildren(raw) ==
    IF raw = <<>> THEN <<>>
    ELSE LET c == Head(raw)
             rest == CleanChildren(Tail(raw))
         IN  IF c.type = "#rawtext"
             THEN LET t == CleanJSXText(c.raw)
                  IN  IF t = <<>> THEN rest ELSE <<TextNode(t)>> \o rest
             ELSE <<c>> \o rest

JSXElement(type, props, rawChildren) ==
    [type |-> type, props |-> props, children |-> CleanChildren(rawChildren)]

(* --------------------------- the component ----------------------------- *)

\* line 8 of the component, without its indentation
MessageSource ==
    << "A", "n", " ", "e", "x", "a", "m", "p", "l", "e", " ", "o", "f", " ",
       "a", "n", " ", "t", "r", "a", "n", "s", "l", "a", "t", "e", "." >>

\* variants of the component that differ from it by one slip

\* the title carries a plural
ExceptionPluralTitle ==
    JSXElement("Layout",
        [title |-> "Exceptions", description |-> "Explain the Exception exception"],
        << JSXText(<<"\n">> \o Spaces(6)),
           JSXElement("Translate",
               [description |-> "Exception description"],
               << JSXText(<<"\n">> \o Spaces(8) \o MessageSource
                          \o <<"\n">> \o Spaces(6)) >>),
           JSXText(<<"\n">> \o Spaces(4)) >>)

\* the message is passed as a string expression, indentation included
ExceptionStringLiteral ==
    JSXElement("Layout",
        [title |-> "Exception", description |-> "Explain the Exception exception"],
        << JSXText(<<"\n">> \o Spaces(6)),
           JSXElement("Translate",
               [description |-> "Exception description"],
               << TextNode(Spaces(1) \o MessageSource \o Spaces(1)) >>),
           JSXText(<<"\n">> \o Spaces(4)) >>)

\* the layout element is left out
ExceptionNoLayout ==
    JSXElement("Translate",
        [description |-> "Exception description"],
        << JSXText(<<"\n">> \o Spaces(8) \o MessageSource
                   \o <<"\n">> \o Spaces(6)) >>)

\* the layout element is written twice, one inside the other
ExceptionNestedLayout ==
    JSXElement("Layout",
        [title |-> "Exception", description |-> "Explain the Exception exception"],
        << JSXElement("Layout",
             [title |-> "Exception", description |-> "Explain the Exception exception"],
             << JSXText(<<"\n">> \o Spaces(6)),
                JSXElement("Translate",
                    [description |-> "Exception description"],
                    << JSXText(<<"\n">> \o Spaces(8) \o MessageSource
                               \o <<"\n">> \o Spaces(6)) >>),
                JSXText(<<"\n">> \o Spaces(4)) >>) >>)

\* the article of the message is changed
ExceptionOtherWording ==
    JSXElement("Layout",
        [title |-> "Exception", description |-> "Explain the Exception exception"],
        << JSXText(<<"\n">> \o Spaces(6)),
           JSXElement("Translate",
               [description |-> "Exception description"],
               << JSXText(<<"\n">> \o Spaces(8)
                          \o SubSeq(MessageSource, 1, 15)
                          \o SubSeq(MessageSource, 17, Len(MessageSource))
                          \o <<"\n">> \o Spaces(6)) >>),
           JSXText(<<"\n">> \o Spaces(4)) >>)

\* the text is written into the layout without the translation element
ExceptionNoTranslate ==
    JSXElement("Layout",
        [title |-> "Exception", description |-> "Explain the Exception exception"],
        << JSXText(<<"\n">> \o Spaces(8) \o MessageSource
                   \o <<"\n">> \o Spaces(4)) >>)

Exception ==
    JSXElement("Layout",
        [title |-> "Exception", description |-> "Explain the Exception exception"],
        << JSXText(<<"\n">> \o Spaces(6)),
           JSXElement("Translate",
               [description |-> "Exception description"],
               << JSXText(<<"\n">> \o Spaces(8) \o MessageSource
                          \o <<"\n">> \o Spaces(6)) >>),
           JSXText(<<"\n">> \o Spaces(4)) >>)

(* ---------------------------- providers -------------------------------- *)

\* the localized variant of a message in locale l
Localized(l, text) == <<"[" , l, "]">> \o text

\* Translation provider: the localized display string for the current locale,
\* the source text when the catalogue has no variant for it.
TranslateProvider(msg, l, cat) ==
    IF l \in cat THEN Localized(l, msg.text) ELSE msg.text

\* the text handed to the translation provider: the element's text children
TextOf(children) ==
    Concat([i \in 1..Len(children) |->
               IF children[i].type = "#text" THEN children[i].text ELSE <<>>])

Empty == [layout |-> <<>>, translate |-> <<>>, body |-> <<>>]

Join(a, b) == [layout |-> a.layout \o b.layout,
               translate |-> a.translate \o b.translate,
               body |-> a.body \o b.body]

RECURSIVE RenderNode(_, _, _, _), RenderAll(_, _, _, _)
\* The host's walk over an element tree: the configurations the layout
\* provider receives, the messages the translation provider receives (with the
\* element they were produced in), and the text content displayed.
RenderNode(node, parent, l, cat) ==
    CASE node.type = "#text" ->
            [layout |-> <<>>, translate |-> <<>>, body |-> node.text]
      [] node.type = "Layout" ->
            Join([layout |-> <<node.props>>, translate |-> <<>>, body |-> <<>>],
                 RenderAll(node.children, "Layout", l, cat))
      [] node.type = "Translate" ->
            LET msg == [text |-> TextOf(node.children),
                        description |-> node.props.description]
            IN  [layout |-> <<>>,
                 translate |-> <<[text |-> msg.text,
                                  description |-> msg.description,
                                  parent |-> parent]>>,
                 body |-> TranslateProvider(msg, l, cat)]

RenderAll(nodes, parent, l, cat) ==
    IF nodes = <<>> THEN Empty
    ELSE Join(RenderNode(Head(nodes), parent, l, cat),
              RenderAll(Tail(nodes), parent, l, cat))

(* ------------------------------ state ---------------------------------- *)

Init ==
    /\ locale = DefaultLocale
    /\ catalogue = {}
    /\ renderCount = 0
    /\ layoutCalls = <<>>
    /\ translateCalls = <<>>
    /\ history = <<>>

\* variants of the render pass that differ from it by one slip

\* the title carries the number of the render
RenderPageCounting ==
    /\ renderCount < MaxRenders
    /\ LET element == IF renderCount = 0 THEN Exception
                      ELSE [Exception EXCEPT !.props.title = "Exception (again)"]
           r == RenderNode(element, "#root", locale, catalogue)
       IN  /\ layoutCalls' = layoutCalls \o r.layout
           /\ translateCalls' = translateCalls \o r.translate
           /\ history' = Append(history,
                  [element |-> element,
                   locale |-> locale,
                   localized |-> (locale \in catalogue),
                   layout |-> r.layout,
                   body |-> r.body])
    /\ renderCount' = renderCount + 1
    /\ UNCHANGED <<locale, catalogue>>

\* the render resets the host's locale
RenderPageSetsLocale ==
    /\ renderCount < MaxRenders
    /\ LET element == Exception
           r == RenderNode(element, "#root", locale, catalogue)
       IN  /\ layoutCalls' = layoutCalls \o r.layout
           /\ translateCalls' = translateCalls \o r.translate
           /\ history' = Append(history,
                  [element |-> element,
                   locale |-> locale,
                   localized |-> (locale \in catalogue),
                   layout |-> r.layout,
                   body |-> r.body])
    /\ renderCount' = renderCount + 1
    /\ locale' = DefaultLocale
    /\ UNCHANGED catalogue

\* the render refuses a locale that has no localized variant
RenderPageGuarded ==
    /\ renderCount < MaxRenders
    /\ locale = DefaultLocale \/ locale \in catalogue
    /\ LET element == Exception
           r == RenderNode(element, "#root", locale, catalogue)
       IN  /\ layoutCalls' = layoutCalls \o r.layout
           /\ translateCalls' = translateCalls \o r.translate
           /\ history' = Append(history,
                  [element |-> element,
                   locale |-> locale,
                   localized |-> (locale \in catalogue),
                   layout |-> r.layout,
                   body |-> r.body])
    /\ renderCount' = renderCount + 1
    /\ UNCHANGED <<locale, catalogue>>

\* the title is looked up in the catalogue as well
RenderPageTranslatedTitle ==
    /\ renderCount < MaxRenders
    /\ LET element == IF locale \in catalogue
                      THEN [Exception EXCEPT !.props.title = "Exception (localized)"]
                      ELSE Exception
           r == RenderNode(element, "#root", locale, catalogue)
       IN  /\ layoutCalls' = layoutCalls \o r.layout
           /\ translateCalls' = translateCalls \o r.translate
           /\ history' = Append(history,
                  [element |-> element,
                   locale |-> locale,
                   localized |-> (locale \in catalogue),
                   layout |-> r.layout,
                   body |-> r.body])
    /\ renderCount' = renderCount + 1
    /\ UNCHANGED <<locale, catalogue>>

\* One render pass of the page by the host.
RenderPage ==
    /\ renderCount < MaxRenders
    /\ LET element == Exception
           r == RenderNode(element, "#root", locale, catalogue)
       IN  /\ layoutCalls' = layoutCalls \o r.layout
           /\ translateCalls' = translateCalls \o r.translate
           /\ history' = Append(history,
                  [element |-> element,
                   locale |-> locale,
                   localized |-> (locale \in catalogue),
                   layout |-> r.layout,
                   body |-> r.body])
    /\ renderCount' = renderCount + 1
    /\ UNCHANGED <<locale, catalogue>>

\* The host builds the site for another locale.
SetLocale(l) ==
    /\ l # locale
    /\ locale' = l
    /\ UNCHANGED <<catalogue, renderCount, layoutCalls, translateCalls, history>>

\* A localized variant of the message is added for locale l.
AddTranslation(l) ==
    /\ l \notin catalogue
    /\ catalogue' = catalogue \cup {l}
    /\ UNCHANGED <<locale, renderCount, layoutCalls, translateCalls, history>>

\* The localized variant of the message is removed for locale l.
RemoveTranslation(l) ==
    /\ l \in catalogue
    /\ catalogue' = catalogue \ {l}
    /\ UNCHANGED <<locale, renderCount, layoutCalls, translateCalls, history>>

Next ==
    \/ RenderPage
    \/ \E l \in Locales : SetLocale(l)
    \/ \E l \in Locales : AddTranslation(l)
    \/ \E l \in Locales : RemoveTranslation(l)

Spec == Init /\ [][Next]_vars

(* ---------------------------- properties ------------------------------ *)

\* the literals of the specification
ClaimedLayout ==
    [title |-> "Exception", description |-> "Explain the Exception exception"]

ClaimedText ==
    << "A", "n", " ", "e", "x", "a", "m", "p", "l", "e", " ", "o", "f", " ",
       "a", "n", " ", "t", "r", "a", "n", "s", "l", "a", "t", "e", "." >>

ClaimedMessage == [text |-> ClaimedText, description |-> "Exception description"]

RECURSIVE ElementCount(_), ElementCountAll(_)
\* number of elements (text nodes are not elements) of a tree
ElementCount(node) ==
    IF node.type = "#text" THEN 0 ELSE 1 + ElementCountAll(node.children)

ElementCountAll(nodes) ==
    IF nodes = <<>> THEN 0 ELSE ElementCount(Head(nodes)) + ElementCountAll(Tail(nodes))

IsRender == renderCount' = renderCount + 1

\* C1: every configuration the layout provider has received, in any sequence
\* of renders, is exactly { title: "Exception", description: "Explain the
\* Exception exception" }.
C1_LayoutConfig ==
    /\ \A i \in 1..Len(layoutCalls) : layoutCalls[i] = ClaimedLayout
    /\ renderCount > 0 => layoutCalls # <<>>

C1_Witness ==
    /\ renderCount >= 2
    /\ Len(layoutCalls) >= 2
    /\ history[1].locale # history[2].locale

\* C2: every message handed to the translation provider is exactly { text:
\* "An example of an translate.", description: "Exception description" }, and
\* its text neither starts nor ends with whitespace.
C2_TranslatableMessage ==
    /\ \A i \in 1..Len(translateCalls) :
          LET m == translateCalls[i]
          IN  /\ [text |-> m.text, description |-> m.description] = ClaimedMessage
              /\ m.text # <<>>
              /\ ~IsBlank(Head(m.text)) /\ ~IsLineBreak(Head(m.text))
              /\ ~IsBlank(m.text[Len(m.text)]) /\ ~IsLineBreak(m.text[Len(m.text)])
    /\ renderCount > 0 => translateCalls # <<>>

C2_Witness ==
    /\ Len(translateCalls) >= 1
    /\ translateCalls[1].text = ClaimedText
    /\ locale = "fr"

\* C3: every tree the page produces has exactly two elements, the layout
\* element as the root and the translation element as its only child, and no
\* translation element is produced outside a layout element.
C3_TwoNestedElements ==
    /\ \A i \in 1..Len(history) :
          LET e == history[i].element
          IN  /\ e.type = "Layout"
              /\ Len(e.children) = 1
              /\ e.children[1].type = "Translate"
              /\ ElementCount(e) = 2
    /\ \A i \in 1..Len(translateCalls) : translateCalls[i].parent = "Layout"
    /\ Len(translateCalls) = renderCount

C3_Witness ==
    /\ Len(history) >= 1
    /\ ElementCount(history[1].element) = 2
    /\ Len(translateCalls) >= 1
    /\ translateCalls[1].parent = "Layout"

\* C4: the tree produced by the n-th render equals the tree produced by the
\* first, and two renders under the same locale and the same catalogue entry
\* display the same result.
C4_Idempotent ==
    /\ \A n \in 1..Len(history) : history[n].element = history[1].element
    /\ \A i, j \in 1..Len(history) :
          (history[i].locale = history[j].locale
             /\ history[i].localized = history[j].localized)
          => history[i] = history[j]

C4_Witness ==
    /\ Len(history) >= 3
    /\ history[1].locale = history[3].locale
    /\ history[1].localized = history[3].localized
    /\ history[1] = history[3]
    /\ history[2].locale # history[1].locale

\* C5: each render records exactly one call of the layout provider, carrying
\* the literal title and description; after k renders exactly k calls are
\* recorded.
C5_OneLayoutCallPerRender ==
    /\ Len(layoutCalls) = renderCount
    /\ \A i \in 1..Len(history) : history[i].layout = <<ClaimedLayout>>

C5_Witness ==
    /\ renderCount = 1
    /\ layoutCalls = <<ClaimedLayout>>

\* C6: when the translation provider returns its input unchanged (no
\* localized variant in the catalogue), a render displays "An example of an
\* translate." verbatim.
C6_IdentityFallback ==
    [][(IsRender /\ catalogue = {})
         => history'[Len(history')].body = ClaimedText]_vars

C6_Witness ==
    /\ catalogue = {}
    /\ Len(history) >= 1
    /\ history[Len(history)].body = ClaimedText
    /\ ~history[Len(history)].localized

\* C7: for every locale, the text displayed is the localized variant of the
\* message when the catalogue has one for the current locale, and the source
\* text "An example of an translate." when it has none.
C7_LocalizedOrSource ==
    \A i \in 1..Len(history) :
        history[i].body = IF history[i].localized
                          THEN Localized(history[i].locale, ClaimedText)
                          ELSE ClaimedText

C7_Witness ==
    /\ Len(history) >= 2
    /\ history[1].localized
    /\ history[1].body = Localized(history[1].locale, ClaimedText)
    /\ ~history[2].localized
    /\ history[2].body = ClaimedText

\* C8: a render leaves the locale and the catalogue unchanged and keeps every
\* call and result recorded before it.
C8_NoSideEffects ==
    [][IsRender =>
          /\ locale' = locale
          /\ catalogue' = catalogue
          /\ SubSeq(layoutCalls', 1, Len(layoutCalls)) = layoutCalls
          /\ SubSeq(translateCalls', 1, Len(translateCalls)) = translateCalls
          /\ SubSeq(history', 1, Len(history)) = history]_vars

C8_Witness ==
    /\ renderCount >= 1
    /\ history[1].locale = "de"
    /\ locale = "de"
    /\ catalogue = {"de", "fr"}

\* C9: a render is possible in every state, whatever the locale and the
\* catalogue, and each one has yielded a tree.
C9_Total ==
    /\ renderCount < MaxRenders => ENABLED RenderPage
    /\ Len(history) = renderCount
    /\ \A i \in 1..Len(history) : history[i].element.type \in {"Layout", "Translate"}

C9_Witness ==
    /\ renderCount >= 1
    /\ history[renderCount].locale = "de"
    /\ ~history[renderCount].localized
    /\ history[renderCount].element.type = "Layout"

\* C10: two renders under different locales, with or without a localized
\* variant, hand the same configuration to the layout provider; only the text
\* displayed differs.
C10_LayoutNotTranslated ==
    \A i, j \in 1..Len(history) :
        history[i].locale # history[j].locale
        => /\ history[i].layout = history[j].layout
           /\ history[i].element.props = history[j].element.props

C10_Witness ==
    /\ Len(history) >= 2
    /\ history[1].locale # history[2].locale
    /\ history[1].body # history[2].body
    /\ history[1].layout = history[2].layout

====
